---- MODULE Spec2Model ----
(***************************************************************************)
(* Model of modules/metalink.py: the Metalink 4 parser (load_meta4), the   *)
(* per-item mirror loop (_fetch_one / _try_one_url) and the bounded        *)
(* fan-out (fetch_meta4), as asyncio tasks that interleave at their await  *)
(* points.                                                                 *)
(*                                                                         *)
(* File bodies are abstract values; "partial" is a body that was opened   *)
(* for writing and not streamed to its end.  Sha256 maps a body to its    *)
(* hex digest (distinct bodies have distinct digests).                    *)
(***************************************************************************)
EXTENDS Integers, Sequences, FiniteSets, TLC

\* ------------------------------------------------------------------ bounds
MaxItems   == 2      \* file entries of a manifest
MaxMirrors == 2      \* url children of a file entry
MaxWorkers == 2      \* workers argument of fetch_meta4
MaxHashes  == 2      \* hash children of a file entry (parser specification)
MaxRuns    == 2      \* calls of fetch_meta4 on the same manifest and directory
MaxSizePx  == 600    \* raster width or height handed to _block

\* ------------------------------------------------------- program constants
SockConnect == 10    \* aiohttp.ClientTimeout(sock_connect=10)
SockRead    == 30    \* aiohttp.ClientTimeout(sock_read=30)
BlockUnit   == 16    \* tile_merger._block: block sizes are multiples of 16
BlockCap    == 512   \* tile_merger._block: largest block size

\* ---------------------------------------------------------------- values
None      == "None"                  \* Python None
NoFile    == "NoFile"                \* dest.exists() is False
Partial   == "partial"               \* opened "wb", body not streamed to its end
Bodies    == {"b1", "b2"}            \* complete response bodies a mirror can serve
Names     == {"a.tif", "b.tif"}      \* name attributes
HashTypes == {"sha256", "md5", None} \* type attribute of a hash element (None: bare <hash>)
\* text of a hash element: the digest of body b1 in the form its type names
HashText(ty) ==
    CASE ty = "sha256" -> "d1"
      [] ty = "md5"    -> "m1"
      [] ty = None     -> "x1"
NetErrors == {"ClientError", "TimeoutError"}   \* the except tuple of _fetch_one

\* hashlib.sha256(bytes).hexdigest()
Sha256(body) ==
    CASE body = "b1"    -> "d1"
      [] body = "b2"    -> "d2"
      [] body = Partial -> "d0"

\* sequences over S of length 0..n
SeqUpTo(S, n) == UNION {[1..k -> S] : k \in 0..n}

\* all orders random.shuffle can leave a list in
Shuffles(s) ==
    {t \in [1..Len(s) -> {s[k] : k \in 1..Len(s)}] :
        \E f \in [1..Len(s) -> 1..Len(s)] :
            /\ \A a, b \in 1..Len(s) : a # b => f[a] # f[b]
            /\ \A k \in 1..Len(s) : t[k] = s[f[k]]}

VARIABLES
    doc,        \* the manifest document: sequence of file entries
    items,      \* result of load_meta4 (the urls lists are shuffled in place)
    workers,    \* the workers argument
    disk,       \* out_dir: name -> NoFile or the body stored under that name
    sem,        \* asyncio.Semaphore._value
    pc,         \* per task: position in _fetch_one, or its outcome
    pos,        \* per task: loop index i of enumerate(urls, 1)
    timeout,    \* per task: the ClientTimeout of the next attempt
    err,        \* per task: the exception _fetch_one raised
    hist,       \* per task: the attempts made (history)
    doneQ,      \* as_completed: tasks in completion order
    consumed,   \* progress loop: number of completions awaited
    run,        \* fetch_meta4: "running", "returned" or "raised"
    runNo,      \* which call of fetch_meta4 this is
    size_px,    \* tile_merger._block: its argument
    block       \* tile_merger._block: its result, -1 before the call

vars == <<doc, items, workers, disk, sem, pc, pos, timeout, err, hist,
          doneQ, consumed, run, runNo, size_px, block>>

\* ------------------------------------------------------------ load_meta4
\* f.find(".//ml:hash[@type='sha256']"): index of the first match, 0 for None
FindTyped(hashes, ty) ==
    IF \E k \in 1..Len(hashes) : hashes[k].type = ty
    THEN CHOOSE k \in 1..Len(hashes) :
            /\ hashes[k].type = ty
            /\ \A j \in 1..(k - 1) : hashes[j].type # ty
    ELSE 0

\* f.find(".//ml:hash"): index of the first hash element, 0 for None
FindAny(hashes) == IF Len(hashes) > 0 THEN 1 ELSE 0

\* bool(element) as xml.etree.ElementTree defines it: an element is true
\* when it has child elements; None is false
Truthy(hashes, k) == k # 0 /\ hashes[k].nchild > 0

\* h = f.find(sha256) or f.find(any)
PickHash(hashes) ==
    LET a == FindTyped(hashes, "sha256")
    IN  IF Truthy(hashes, a) THEN a ELSE FindAny(hashes)

\* body of the loop over file elements
ParseFile(f) ==
    LET h == PickHash(f.hashes)
    IN  [name |-> f.name,
         sha  |-> IF h # 0 THEN f.hashes[h].text ELSE None,
         urls |-> f.urls]

\* load_meta4: the item list; exc is "KeyError" when f.attrib["name"] is
\* missing from some file element (nothing is returned then)
LoadMeta4(d) ==
    IF \E k \in 1..Len(d) : d[k].name = None
    THEN [exc |-> "KeyError", items |-> <<>>]
    ELSE [exc |-> None, items |-> [k \in 1..Len(d) |-> ParseFile(d[k])]]

\* ------------------------------------------------------------- documents
\* a hash element: type attribute, text, number of child elements
HashElems == {[type |-> ty, text |-> HashText(ty), nchild |-> n] :
                 ty \in HashTypes, n \in {0, 1}}

\* manifests of the parser specification: any hash children, name optional
ParseEntries == [name   : {"a.tif", None},
                 urls   : {[k \in 1..n |-> k] : n \in 0..MaxMirrors},
                 hashes : SeqUpTo(HashElems, MaxHashes)]
ParseDocs == SeqUpTo(ParseEntries, MaxItems)

\* manifests of the download specification: every entry named, no hash or
\* one sha256 hash carrying the digest of body b1, 0..MaxMirrors urls
RunEntries == [name   : Names,
               urls   : {[k \in 1..n |-> k] : n \in 0..MaxMirrors},
               hashes : {<<>>, <<[type |-> "sha256", text |-> HashText("sha256"), nchild |-> 0]>>}]
RunDocs == SeqUpTo(RunEntries, MaxItems)

\* ------------------------------------------------------------ _fetch_one
Tasks == 1..Len(items)

Terminal == {"skipped", "completed", "returned_none", "failed", "cancelled"}

NoErr == [kind |-> None, pos |-> 0]

\* the tasks of as_completed all run their first step before anything else
AllStarted == \A j \in Tasks : pc[j] # "pending"

\* the comparison of the resume guard inverted
ShouldSkipInverted(sha, file) == sha # None /\ file # NoFile /\ Sha256(file) # sha

\* line 104: sha and dest.exists() and sha256(dest.read_bytes()) == sha
ShouldSkip(sha, file) == sha # None /\ file # NoFile /\ Sha256(file) = sha

\* an acquire that never waits
CanAcquireAlways(v) == TRUE

\* Semaphore.acquire returns only when a permit is available
CanAcquire(v) == v > 0

\* a loop that gives up after its first mirror
IsLastMirrorEarly(i, n) == TRUE

\* line 115: if i == len(urls)
IsLastMirror(i, n) == i = n

\* a loop that tries the failed mirror again
NextMirrorSame(i) == i

\* line 110: the mirror the loop goes on with after mirror i failed
NextMirror(i) == i + 1

\* a budget that is not raised after a failed mirror
NotDoubled(t) == t

\* lines 117-121
Doubled(t) == [sock_connect |-> t.sock_connect * 2, sock_read |-> t.sock_read * 2]

\* the result of the attempt in flight
SetRes(h, r, opened) == [h EXCEPT ![Len(h)].res = r, ![Len(h)].opened = opened]

\* a task whose end is queued twice
ResolveTwice(i, outcome) ==
    /\ pc' = [pc EXCEPT ![i] = outcome]
    /\ doneQ' = Append(Append(doneQ, i), i)

\* a task ends: its future completes and as_completed queues it
Resolve(i, outcome) ==
    /\ pc' = [pc EXCEPT ![i] = outcome]
    /\ doneQ' = Append(doneQ, i)

\* lines 114-121: _try_one_url raised ClientError or TimeoutError e
OnMirrorError(i, e) ==
    IF IsLastMirror(pos[i], Len(items[i].urls))
    THEN /\ Resolve(i, "failed")                     \* raise
         /\ err' = [err EXCEPT ![i] = [kind |-> e, pos |-> pos[i]]]
         /\ UNCHANGED <<pos, timeout>>
    ELSE /\ timeout' = [timeout EXCEPT ![i] = Doubled(timeout[i])]
         /\ pos' = [pos EXCEPT ![i] = NextMirror(pos[i])]
         /\ pc' = [pc EXCEPT ![i] = "acquire"]
         /\ UNCHANGED <<err, doneQ>>

\* lines 100-110: first step of the task, up to the first acquire
Start(i) ==
    /\ run = "running"
    /\ pc[i] = "pending"
    /\ IF ShouldSkip(items[i].sha, disk[items[i].name])
       THEN /\ Resolve(i, "skipped")                  \* line 105
            /\ UNCHANGED <<items, pos, timeout>>
       ELSE \E order \in Shuffles(items[i].urls) :    \* line 107
            /\ items' = [items EXCEPT ![i].urls = order]
            /\ timeout' = [timeout EXCEPT ![i] =
                              [sock_connect |-> SockConnect, sock_read |-> SockRead]]
            /\ IF Len(order) = 0
               THEN /\ Resolve(i, "returned_none")    \* the loop body never runs
                    /\ UNCHANGED pos
               ELSE /\ pos' = [pos EXCEPT ![i] = 1]
                    /\ pc' = [pc EXCEPT ![i] = "acquire"]
                    /\ UNCHANGED doneQ
    /\ UNCHANGED <<size_px, block, doc, workers, disk, sem, err, hist, consumed, run, runNo>>

\* line 76: async with sem, session.get(url): the GET is issued; on a closed
\* session session.get raises RuntimeError, which no except clause catches
Acquire(i) ==
    /\ AllStarted
    /\ pc[i] = "acquire"
    /\ CanAcquire(sem)
    /\ IF run = "running"
       THEN /\ sem' = sem - 1
            /\ pc' = [pc EXCEPT ![i] = "get"]
            /\ hist' = [hist EXCEPT ![i] = Append(@,
                          [pos |-> pos[i], url |-> items[i].urls[pos[i]],
                           opened |-> FALSE, res |-> "inflight"])]
            /\ UNCHANGED <<err, doneQ>>
       ELSE /\ Resolve(i, "failed")
            /\ err' = [err EXCEPT ![i] = [kind |-> "RuntimeError", pos |-> pos[i]]]
            /\ UNCHANGED <<sem, hist>>
    /\ UNCHANGED <<size_px, block, doc, items, workers, disk, pos, timeout, consumed, run, runNo>>

\* lines 76-77: no response, or a non-2xx status; the semaphore is released
GetFail(i, e) ==
    /\ pc[i] = "get"
    /\ sem' = sem + 1
    /\ hist' = [hist EXCEPT ![i] = SetRes(@, e, FALSE)]
    /\ OnMirrorError(i, e)
    /\ UNCHANGED <<size_px, block, doc, items, workers, disk, consumed, run, runNo>>

\* lines 77-78: 2xx status, aiofiles.open(dest, "wb") creates or truncates dest
GetOk(i) ==
    /\ pc[i] = "get"
    /\ pc' = [pc EXCEPT ![i] = "stream"]
    /\ disk' = [disk EXCEPT ![items[i].name] = Partial]
    /\ hist' = [hist EXCEPT ![i] = SetRes(@, "inflight", TRUE)]
    /\ UNCHANGED <<size_px, block, doc, items, workers, sem, pos, timeout, err, doneQ, consumed, run, runNo>>

\* lines 79-80: the transfer breaks between two chunks; dest keeps what was written
StreamFail(i, e) ==
    /\ pc[i] = "stream"
    /\ sem' = sem + 1
    /\ hist' = [hist EXCEPT ![i] = SetRes(@, e, TRUE)]
    /\ OnMirrorError(i, e)
    /\ UNCHANGED <<size_px, block, doc, items, workers, disk, consumed, run, runNo>>

\* what dest holds after the last chunk of body was written: body, unless
\* another task is writing the same path
Stored(i, body) ==
    {body} \cup
    (IF \E j \in Tasks : j # i /\ pc[j] = "stream" /\ items[j].name = items[i].name
     THEN {Partial} ELSE {})

\* lines 79-87 and 113: the body is streamed to its end, the semaphore is
\* released, the digest is verified when a checksum is declared
StreamDone(i, body) ==
    /\ pc[i] = "stream"
    /\ sem' = sem + 1
    /\ \E stored \in Stored(i, body) :
         IF items[i].sha # None /\ Sha256(stored) # items[i].sha
         THEN /\ disk' = [disk EXCEPT ![items[i].name] = NoFile]   \* dest.unlink
              /\ hist' = [hist EXCEPT ![i] = SetRes(@, "mismatch", TRUE)]
              /\ Resolve(i, "failed")            \* ValueError is not caught at line 114
              /\ err' = [err EXCEPT ![i] = [kind |-> "ValueError", pos |-> pos[i]]]
         ELSE /\ disk' = [disk EXCEPT ![items[i].name] = stored]
              /\ hist' = [hist EXCEPT ![i] = SetRes(@, "ok", TRUE)]
              /\ Resolve(i, "completed")         \* return name
              /\ UNCHANGED err
    /\ UNCHANGED <<size_px, block, doc, items, workers, pos, timeout, consumed, run, runNo>>

\* download_meta4, asyncio.run: once fetch_meta4 has raised, the tasks still
\* pending are cancelled at their await point (under a running loop they go on)
Cancel(i) ==
    /\ run = "raised"
    /\ pc[i] \in {"acquire", "get", "stream"}
    /\ sem' = IF pc[i] = "acquire" THEN sem ELSE sem + 1
    /\ hist' = IF pc[i] = "acquire" THEN hist
               ELSE [hist EXCEPT ![i] = SetRes(@, "cancelled", @[Len(@)].opened)]
    /\ Resolve(i, "cancelled")
    /\ UNCHANGED <<size_px, block, doc, items, workers, disk, pos, timeout, err, consumed, run, runNo>>

\* ----------------------------------------------------------- fetch_meta4
\* an await that swallows the exception of the task
RaisesNever(outcome) == FALSE

\* line 150: `await coro` re-raises the exception of a task that failed
Raises(outcome) == outcome = "failed"

\* lines 149-150: await the next completed task; its exception propagates,
\* leaves the loop and closes the session
Progress ==
    /\ run = "running"
    /\ AllStarted
    /\ consumed < Len(doneQ)
    /\ IF Raises(pc[doneQ[consumed + 1]])
       THEN run' = "raised" /\ UNCHANGED consumed
       ELSE consumed' = consumed + 1 /\ UNCHANGED run
    /\ UNCHANGED <<size_px, block, doc, items, workers, disk, sem, pc, pos, timeout, err, hist, doneQ, runNo>>

\* line 149: every task was awaited; the session closes, fetch_meta4 returns
Finish ==
    /\ run = "running"
    /\ consumed = Len(items)
    /\ run' = "returned"
    /\ UNCHANGED <<size_px, block, doc, items, workers, disk, sem, pc, pos, timeout, err, hist,
                   doneQ, consumed, runNo>>

\* per-task state when the tasks are created (line 148)
Fresh(n, v) == [i \in 1..n |-> v]

NoTimeout == [sock_connect |-> 0, sock_read |-> 0]

\* the caller runs fetch_meta4 again on the same manifest and directory
\* after a run that returned (lines 136-148)
NextRun ==
    /\ run = "returned"
    /\ runNo < MaxRuns
    /\ runNo' = runNo + 1
    /\ LET its == LoadMeta4(doc).items
       IN  /\ items' = its
           /\ pc' = Fresh(Len(its), "pending")
           /\ pos' = Fresh(Len(its), 0)
           /\ timeout' = Fresh(Len(its), NoTimeout)
           /\ err' = Fresh(Len(its), NoErr)
           /\ hist' = Fresh(Len(its), <<>>)
    /\ sem' = workers
    /\ doneQ' = <<>>
    /\ consumed' = 0
    /\ run' = "running"
    /\ UNCHANGED <<size_px, block, doc, workers, disk>>

\* fetch_meta4 after lines 136-148: manifest loaded, semaphore and tasks created
Init ==
    /\ doc \in RunDocs
    /\ workers \in 1..MaxWorkers
    /\ disk \in [Names -> {NoFile} \cup Bodies]
    /\ runNo = 1
    /\ size_px = 0
    /\ block = -1
    /\ LET its == LoadMeta4(doc).items
       IN  /\ items = its
           /\ pc = Fresh(Len(its), "pending")
           /\ pos = Fresh(Len(its), 0)
           /\ timeout = Fresh(Len(its), NoTimeout)
           /\ err = Fresh(Len(its), NoErr)
           /\ hist = Fresh(Len(its), <<>>)
    /\ sem = workers
    /\ doneQ = <<>>
    /\ consumed = 0
    /\ run = "running"

Next ==
    \/ \E i \in Tasks : Start(i)
    \/ \E i \in Tasks : Acquire(i)
    \/ \E i \in Tasks, e \in NetErrors : GetFail(i, e)
    \/ \E i \in Tasks : GetOk(i)
    \/ \E i \in Tasks, e \in NetErrors : StreamFail(i, e)
    \/ \E i \in Tasks, body \in Bodies : StreamDone(i, body)
    \/ \E i \in Tasks : Cancel(i)
    \/ Progress
    \/ Finish
    \/ NextRun

Spec == Init /\ [][Next]_vars

\* ------------------------------------------------ parser specification
\* load_meta4 applied to a manifest drawn from ParseDocs
InitParse ==
    /\ doc \in ParseDocs
    /\ items = <<>>
    /\ run = "parsing"
    /\ workers = 1
    /\ disk = [n \in Names |-> NoFile]
    /\ sem = 1
    /\ pc = <<>>
    /\ pos = <<>>
    /\ timeout = <<>>
    /\ err = <<>>
    /\ hist = <<>>
    /\ doneQ = <<>>
    /\ consumed = 0
    /\ runNo = 1
    /\ size_px = 0
    /\ block = -1

\* lines 50-63: run becomes "parsed", or the exception load_meta4 raised
Parse ==
    /\ run = "parsing"
    /\ LET r == LoadMeta4(doc)
       IN  /\ items' = r.items
           /\ run' = IF r.exc = None THEN "parsed" ELSE r.exc
    /\ UNCHANGED <<size_px, block, doc, workers, disk, sem, pc, pos, timeout, err, hist,
                   doneQ, consumed, runNo>>

NextParse == Parse

SpecParse == InitParse /\ [][NextParse]_vars

\* ------------------------------------------------- tile_merger._block
Min(a, b) == IF a < b THEN a ELSE b
Max(a, b) == IF a > b THEN a ELSE b

\* _block without its lower limit
BlockNoFloor(n) == Min(BlockCap, (n \div BlockUnit) * BlockUnit)

\* line 27: max(16, min(512, (size_px // 16) * 16))
Block(n) == Max(BlockUnit, Min(BlockCap, (n \div BlockUnit) * BlockUnit))

\* _block is about to be called with a width or height of 0..MaxSizePx pixels
InitBlock ==
    /\ size_px \in 0..MaxSizePx
    /\ block = -1
    /\ doc = <<>>
    /\ items = <<>>
    /\ run = "block"
    /\ workers = 1
    /\ disk = [n \in Names |-> NoFile]
    /\ sem = 1
    /\ pc = <<>>
    /\ pos = <<>>
    /\ timeout = <<>>
    /\ err = <<>>
    /\ hist = <<>>
    /\ doneQ = <<>>
    /\ consumed = 0
    /\ runNo = 1

\* lines 25-27 (called at lines 85-86)
CallBlock ==
    /\ run = "block"
    /\ block = -1
    /\ block' = Block(size_px)
    /\ UNCHANGED <<size_px, doc, items, workers, disk, sem, pc, pos, timeout, err,
                   hist, doneQ, consumed, run, runNo>>

NextBlock == CallBlock

SpecBlock == InitBlock /\ [][NextBlock]_vars

\* ---------------------------------------------------------------- claims
InNetworkPhase == {i \in Tasks : pc[i] \in {"get", "stream"}}

UniqueName(i) == \A j \in Tasks : j # i => items[j].name # items[i].name

\* resolved by _fetch_one itself: returned or raised (not cancelled from outside)
Resolved(i) == pc[i] \in {"skipped", "completed", "returned_none", "failed"}

\* C1: at most `workers` item fetches are in their network phase (GET issued,
\* body not yet streamed to its end or aborted) in every reachable state.
C1_ConcurrencyBound == Cardinality(InNetworkPhase) <= workers

\* C1 witness: every permit is taken by a fetch in its network phase while
\* another item waits for one.
C1_Witness ==
    /\ Cardinality(InNetworkPhase) = workers
    /\ \E i \in Tasks : pc[i] = "acquire"

\* C2 (as claimed): when fetch_meta4 returns or raises, every item has reached
\* its own outcome: skipped, completed, or failed.
C2_AllResolvedBeforeReport ==
    run \in {"returned", "raised"} =>
        \A i \in Tasks : Resolved(i)

\* C3 (as claimed): a checksum mismatch is handled like a mirror failure, so
\* an item fails on a mismatch only at its last mirror.
C3_MismatchAdvances ==
    \A i \in Tasks :
        (pc[i] = "failed" /\ err[i].kind = "ValueError")
            => err[i].pos = Len(items[i].urls)

\* C4 (as claimed): the first step of _fetch_one skips exactly when the item
\* declares a checksum, the file exists and its digest equals the checksum;
\* in every other case it goes on to fetch the item from a mirror.
C4_SkipExactlyWhenVerified ==
    [][\A i \in Tasks :
          (pc[i] = "pending" /\ pc'[i] # "pending") =>
              LET verified == /\ items[i].sha # None
                              /\ disk[items[i].name] # NoFile
                              /\ Sha256(disk[items[i].name]) = items[i].sha
              IN  /\ verified <=> (pc'[i] = "skipped" /\ hist'[i] = <<>>)
                  /\ ~verified => pc'[i] = "acquire"]_vars

\* C5 (as claimed): an item whose mirrors all failed with network errors
\* fails with the error of its final attempt, and no file this fetch wrote
\* partially remains at its destination.
C5_ExhaustedLeavesNoPartial ==
    \A i \in Tasks :
        (pc[i] = "failed" /\ err[i].kind \in NetErrors /\ UniqueName(i)) =>
            /\ err[i].pos = Len(items[i].urls)
            /\ err[i].kind = hist[i][Len(hist[i])].res
            /\ ~ (/\ disk[items[i].name] = Partial
                  /\ \E k \in 1..Len(hist[i]) : hist[i][k].opened)

\* C6: when an attempt failed with a network error and a later mirror
\* succeeds, the item is completed, the succeeding mirror was attempted
\* exactly once, and no attempt follows the successful one.
C6_FailoverCompletes ==
    \A i \in Tasks : \A k \in 1..Len(hist[i]) :
        (/\ hist[i][k].res = "ok"
         /\ \E j \in 1..(k - 1) : hist[i][j].res \in NetErrors)
        => /\ pc[i] = "completed"
           /\ k = Len(hist[i])
           /\ Cardinality({j \in 1..Len(hist[i]) : hist[i][j].pos = hist[i][k].pos}) = 1

\* C6 witness: the first mirror failed with a network error, the second
\* succeeded, the item is completed.
C6_Witness ==
    \E i \in Tasks :
        /\ pc[i] = "completed"
        /\ Len(hist[i]) = 2
        /\ hist[i][1].res \in NetErrors
        /\ hist[i][2].res = "ok"

\* C7 (as claimed): an item with a declared checksum to which no mirror
\* served a matching body ends failed, and once it has resolved no file
\* exists at its destination.
C7_TamperedLeavesNoFile ==
    \A i \in Tasks :
        (/\ items[i].sha # None
         /\ UniqueName(i)
         /\ pc[i] \in {"completed", "returned_none", "failed"}
         /\ Len(hist[i]) >= 1
         /\ \A k \in 1..Len(hist[i]) : hist[i][k].opened /\ hist[i][k].res # "ok")
        => /\ pc[i] = "failed"
           /\ disk[items[i].name] = NoFile

\* C8 (as claimed): a run that follows a run that returned skips every item
\* and issues no network request.
C8_SecondRunSkipsAll ==
    runNo >= 2 =>
        \A i \in Tasks :
            (UniqueName(i) /\ Len(items[i].urls) >= 1) =>
                /\ pc[i] \in {"pending", "skipped"}
                /\ hist[i] = <<>>

\* C8 (amended): in a run that follows a run that returned, no network
\* request is issued for an item that declares a checksum and shares its
\* name with no other item (the guard skips it when it has a mirror); an
\* item without a checksum is never skipped and completes only by a fetch.
C8_SecondRunSkipsVerified ==
    runNo >= 2 =>
        \A i \in Tasks :
            /\ (items[i].sha # None /\ UniqueName(i)) =>
                  /\ hist[i] = <<>>
                  /\ pc[i] \in {"pending", "skipped", "returned_none"}
                  /\ Len(items[i].urls) >= 1 => pc[i] \in {"pending", "skipped"}
            /\ items[i].sha = None =>
                  /\ pc[i] # "skipped"
                  /\ pc[i] = "completed" => Len(hist[i]) >= 1

\* C8 witness: in the second run an item with a checksum is skipped and an
\* item without one is being fetched again.
C8_Witness ==
    /\ runNo = 2
    /\ \E i \in Tasks : items[i].sha # None /\ UniqueName(i) /\ pc[i] = "skipped"
    /\ \E j \in Tasks : items[j].sha = None /\ Len(hist[j]) >= 1

\* C9 (as claimed): load_meta4 fails on a manifest with a file entry that has
\* no url child; every item returned has at least one mirror and there is
\* one item per file entry.
C9_ZeroUrlsRejected ==
    /\ (run # "parsing" /\ \E k \in 1..Len(doc) : Len(doc[k].urls) = 0)
          => run # "parsed"
    /\ run = "parsed" =>
          /\ Len(items) = Len(doc)
          /\ \A k \in 1..Len(items) : Len(items[k].urls) >= 1

C11_RaisesIffFailed ==
    /\ run = "raised" => \E i \in Tasks : pc[i] = "failed"
    /\ run = "returned" =>
          /\ consumed = Len(items)
          /\ \A i \in Tasks : pc[i] \in {"skipped", "completed", "returned_none"}
    /\ (run = "running" /\ consumed = Len(items)) =>
          \A i \in Tasks : pc[i] # "failed"

\* C11 witness: the run was reported failed with one item failed and another
\* one completed.
C11_Witness ==
    /\ run = "raised"
    /\ \E i, j \in Tasks : pc[i] = "failed" /\ pc[j] = "completed"

\* C12 (as claimed): no two tasks of a run are writing the same destination
\* path at the same time.
C12_ExclusiveDestination ==
    \A i, j \in Tasks :
        (i # j /\ pc[i] = "stream" /\ pc[j] = "stream") =>
            items[i].name # items[j].name

RECURSIVE Pow2(_)
Pow2(k) == IF k = 0 THEN 1 ELSE 2 * Pow2(k - 1)

FailedMirrors(i) ==
    Cardinality({a \in 1..Len(hist[i]) : hist[i][a].res \in NetErrors})

\* C13: the attempt an item makes or waits to make after k failed mirrors
\* uses connect 10 * 2^k and read 30 * 2^k; an item that has had no failed
\* mirror uses 10 / 30.
C13_TimeoutDoubles ==
    \A i \in Tasks :
        pc[i] \in {"acquire", "get", "stream"} =>
            /\ FailedMirrors(i) = pos[i] - 1
            /\ timeout[i] = [sock_connect |-> SockConnect * Pow2(FailedMirrors(i)),
                             sock_read    |-> SockRead * Pow2(FailedMirrors(i))]

\* C13 witness: an item is at its second mirror, after one failed mirror,
\* with the budget 20 / 60, while another item is still at 10 / 30.
C13_Witness ==
    \E i, j \in Tasks :
        /\ pc[i] = "get"
        /\ Len(hist[i]) = 2
        /\ hist[i][1].res \in NetErrors
        /\ timeout[i] = [sock_connect |-> 20, sock_read |-> 60]
        /\ pc[j] = "get"
        /\ timeout[j] = [sock_connect |-> 10, sock_read |-> 30]

\* C14: the attempts of an item are made at pairwise different mirrors, so
\* never more attempts than mirrors; an item that failed with a network
\* failure has attempted each of its mirrors exactly once.
C14_NoMirrorTwice ==
    \A i \in Tasks :
        /\ Len(hist[i]) <= Len(items[i].urls)
        /\ \A a, b \in 1..Len(hist[i]) :
              a # b => (hist[i][a].pos # hist[i][b].pos /\ hist[i][a].url # hist[i][b].url)
        /\ (pc[i] = "failed" /\ err[i].kind \in NetErrors) =>
              /\ Len(hist[i]) = Len(items[i].urls)
              /\ {hist[i][a].url : a \in 1..Len(hist[i])} =
                 {items[i].urls[k] : k \in 1..Len(items[i].urls)}
              /\ \A a \in 1..Len(hist[i]) : hist[i][a].res \in NetErrors

\* C14 witness: an item with two mirrors failed after a network failure at
\* each of them.
C14_Witness ==
    \E i \in Tasks :
        /\ pc[i] = "failed"
        /\ err[i].kind \in NetErrors
        /\ Len(items[i].urls) = 2
        /\ Len(hist[i]) = 2

\* C15 (as claimed): once _fetch_one has returned or raised, the item record
\* is the one load_meta4 produced: same name, checksum and mirror order.
C15_ItemUnchanged ==
    \A i \in Tasks : Resolved(i) => items[i] = LoadMeta4(doc).items[i]

\* C16 (as claimed): an item is completed only with a destination file that
\* holds a whole response body, never a partial one.
C16_CompletedNotPartial ==
    \A i \in Tasks :
        pc[i] = "completed" =>
            /\ disk[items[i].name] # Partial
            /\ hist[i][Len(hist[i])].res = "ok"

NoDuplicates(q) == \A a, b \in 1..Len(q) : a # b => q[a] # q[b]

\* C17: one task per manifest entry; the tasks that ended are queued for the
\* progress loop exactly once each, and the loop has counted a prefix of
\* that queue; a run that returned has counted as many items as the
\* manifest has entries.
C17_EachItemOnce ==
    /\ Len(items) = Len(doc)
    /\ DOMAIN pc = 1..Len(doc)
    /\ NoDuplicates(doneQ)
    /\ {doneQ[a] : a \in 1..Len(doneQ)} = {i \in Tasks : pc[i] \in Terminal}
    /\ consumed <= Len(doneQ)
    /\ run = "returned" => (consumed = Len(doc) /\ Len(doneQ) = Len(doc))

\* C17 witness: a run of two items returned, the second item having ended
\* before the first.
C17_Witness ==
    /\ run = "returned"
    /\ doneQ = <<2, 1>>
    /\ consumed = 2

\* C18 (as claimed): when _fetch_one returns for an item, by skip or after
\* its loop, the destination file exists and has the declared digest if
\* one is declared.
C18_ReturnImpliesFile ==
    [][\A i \in Tasks :
          (pc[i] \notin Terminal /\ pc'[i] \in {"skipped", "completed", "returned_none"}) =>
              /\ disk'[items[i].name] # NoFile
              /\ items[i].sha # None => Sha256(disk'[items[i].name]) = items[i].sha]_vars

====
